---- MODULE Spec2Model ----
(***************************************************************************)
(* A model of google-suite: the retry / error-mapping wrappers             *)
(* (gsuite_core/api_utils.py), the two Token Store implementations         *)
(* (gsuite_core/storage/sqlite.py, secretmanager.py), the credential       *)
(* manager GoogleAuth (gsuite_core/auth/oauth.py), the dependencies of the *)
(* REST gateway (gsuite_api) and the label operations of a Gmail Message.  *)
(*                                                                         *)
(* The specifications share the module's variables:                        *)
(*   SpecRetry           api_call and api_call_optional run against one    *)
(*                       script of outcomes of the wrapped function;       *)
(*   SpecStore           the Token Store operations on one backend;        *)
(*   SpecFieldIds        the same, with a user id that is a field name;    *)
(*   Spec                one GoogleAuth manager over one backend, with     *)
(*                       other clients of the store and the passing of     *)
(*                       time;                                             *)
(*   SpecServiceAccount  the manager from_service_account builds;          *)
(*   SpecGateway         requests to the gateway's routes;                 *)
(*   SpecRace            two managers refreshing over one store;           *)
(*   SpecMessage         the label operations of one Message.              *)
(***************************************************************************)
EXTENDS Integers, Sequences, FiniteSets, TLC

VARIABLES
    dec,        \* the arguments given to the api_call decorator
    settings,   \* gsuite_core.config.Settings (retry policy part)
    script,     \* what the wrapped function does on its 1st, 2nd, ... invocation
    ac,         \* the run of the api_call wrapper
    ao,         \* the run of the api_call_optional wrapper
    backend,    \* which TokenStore implementation is in use
    auto_create,\* SecretManagerTokenStore.auto_create
    rows,       \* the rows of the SQLite table tokens
    secret,     \* the Secret Manager secret: does it exist, its latest version
    saved,      \* history: per user id, the token data last passed to save_token
    deleted,    \* history: has delete_token been called on the store
    lastop,     \* history: the last Token Store operation and what it saw
    auth,       \* the GoogleAuth manager: user_id and _credentials
    creds_file, \* does the OAuth client-secret file exist at credentials_file
    issued,     \* how many access tokens the authorization server has issued
    expired,    \* the access tokens whose expiry time has passed
    call,       \* history: the last GoogleAuth operation and what it did
    api_key,    \* settings.api_key of the REST gateway (Null: not configured)
    resp,       \* history: the gateway's last request and its response
    managers,   \* two GoogleAuth managers refreshing at once, step by step
    last_write, \* history: the last save_token that wrote to the shared store
    msg,        \* a gsuite_gmail Message: its labels, is it linked to a client
    modify,     \* history: the last label operation on the message
    labels0     \* history: the labels the message was built with

retryVars == <<dec, settings, script, ac, ao>>
storeVars == <<backend, auto_create, rows, secret>>
storeHist == <<saved, deleted, lastop>>
authVars  == <<auth, creds_file, issued, expired, call>>
gatewayVars == <<api_key, resp>>
raceVars == <<managers, last_write>>
messageVars == <<msg, modify, labels0>>
extVars == <<gatewayVars, raceVars, messageVars>>
vars == <<dec, settings, script, ac, ao, backend, auto_create, rows, secret,
          saved, deleted, lastop, auth, creds_file, issued, expired, call,
          api_key, resp, managers, last_write, msg, modify, labels0>>

\* Python's None, where the value is otherwise a string.
Null == "null"

\* An optional integer: <<>> is None, <<n>> is n.
None == <<>>
Some(n) == <<n>>

Max(a, b) == IF a >= b THEN a ELSE b

RECURSIVE Pow2(_)
Pow2(n) == IF n <= 0 THEN 1 ELSE 2 * Pow2(n - 1)

-----------------------------------------------------------------------------
(* Strings whose characters matter are sequences of one-character strings. *)

UpperChars == <<"A","B","C","D","E","F","G","H","I","J","K","L","M",
                "N","O","P","Q","R","S","T","U","V","W","X","Y","Z">>
LowerChars == <<"a","b","c","d","e","f","g","h","i","j","k","l","m",
                "n","o","p","q","r","s","t","u","v","w","x","y","z">>

LowerChar(c) ==
    IF \E i \in DOMAIN UpperChars : UpperChars[i] = c
    THEN LowerChars[CHOOSE i \in DOMAIN UpperChars : UpperChars[i] = c]
    ELSE c

\* str.lower()
Lower(s) == [i \in DOMAIN s |-> LowerChar(s[i])]

\* needle in hay
Contains(hay, needle) ==
    \E i \in 1..(Len(hay) - Len(needle) + 1) :
        SubSeq(hay, i, i + Len(needle) - 1) = needle

Quota == <<"q","u","o","t","a">>

\* The retry-after header values of the model: delay-seconds, or an HTTP-date.
HttpDate == "Wed, 21 Oct 2015 07:28:00 GMT"

\* int(s) returns: s is an integer literal.  Otherwise int(s) raises ValueError.
IsIntLiteral(s) == s \in {"0", "5"}

\* int(s), where it returns
ParseInt(s) == CASE s = "0" -> 0 [] s = "5" -> 5 [] OTHER -> 0

-----------------------------------------------------------------------------
(* Outcomes of one invocation of the wrapped function.                     *)

Out(type, status, message, retry_after) ==
    [type |-> type, status |-> status, message |-> message,
     retry_after |-> retry_after]

OkOut  == Out("ok", 200, <<>>, Null)
ExcOut == Out("exc", 0, <<"V","a","l","u","e">>, Null) \* a non-HttpError exception
Http(status, message, retry_after) == Out("http", status, message, retry_after)

HttpErrors ==
    { Http(400, <<"B","a","d">>, Null),
      Http(403, <<"D","e","n","i","e","d">>, Null),
      Http(403, <<"Q","u","o","t","a"," ","e","x">>, Null),
      Http(404, <<"N","o","n","e">>, Null),
      Http(429, <<"S","l","o","w">>, Null),
      Http(429, <<"S","l","o","w">>, "5"),
      Http(429, <<"S","l","o","w">>, HttpDate),
      Http(500, <<"I","n","t">>, Null),
      Http(503, <<"U","n","a","v">>, Null) }

Outcomes == {OkOut, ExcOut} \cup HttpErrors

\* A domain exception (gsuite_core/exceptions.py), the ValueError int() raises,
\* or no exception.
Err(kind, status_code, retry_after, message) ==
    [kind |-> kind, status_code |-> status_code, retry_after |-> retry_after,
     message |-> message]

NoErr == Err("none", 0, None, <<>>)

map_http_error(error) ==
    LET status  == error.status
        message == error.message
    IN  IF status = 404
        THEN Err("NotFoundError", 404, None, <<>>)
        ELSE IF status = 403
        THEN IF Contains(Lower(message), Quota)
             THEN Err("QuotaExceededError", 403, None, <<>>)
             ELSE Err("PermissionDeniedError", 403, None, <<>>)
        ELSE IF status = 429
        THEN LET retry_after == error.retry_after
             IN  IF retry_after # Null /\ retry_after # ""
                 THEN IF IsIntLiteral(retry_after)
                      THEN Err("RateLimitError", 429,
                               Some(ParseInt(retry_after)), <<>>)
                      ELSE Err("ValueError", 0, None, <<>>)
                 ELSE Err("RateLimitError", 429, None, <<>>)
        ELSE Err("APIError", status, None, message)

-----------------------------------------------------------------------------
(* api_call: the retry loop, one action per way an iteration can end.      *)

MaxRetries == 2     \* largest max_retries the model draws
MaxDelay == 2       \* largest base delay the model draws

\* Settings' defaults (config.py)
DefaultMaxRetries == 3
DefaultRetryDelay == 1
DefaultSettings ==
    [max_retries |-> DefaultMaxRetries, retry_delay |-> DefaultRetryDelay,
     retry_on_rate_limit |-> TRUE]

\* The decorator's arguments all given ...
GivenArgs ==
    { [max_retries |-> Some(n), retry_delay |-> Some(d),
       retry_on_rate_limit |-> Some(IF f THEN 1 ELSE 0)] :
        n \in -1..MaxRetries, d \in 1..MaxDelay, f \in BOOLEAN }
\* ... or all left to the settings.
NoArgs == [max_retries |-> None, retry_delay |-> None, retry_on_rate_limit |-> None]
SettingsChoices ==
    { [max_retries |-> n, retry_delay |-> d, retry_on_rate_limit |-> f] :
        n \in -1..MaxRetries, d \in 1..MaxDelay, f \in BOOLEAN }

\* "x if x is not None else settings.x"
max_retries_of(d, s) ==
    IF d.max_retries # None THEN d.max_retries[1] ELSE s.max_retries
retry_delay_of(d, s) ==
    IF d.retry_delay # None THEN d.retry_delay[1] ELSE s.retry_delay
retry_on_rate_limit_of(d, s) ==
    IF d.retry_on_rate_limit # None THEN d.retry_on_rate_limit[1] = 1
    ELSE s.retry_on_rate_limit

Run(pc, attempt, calls, sleeps, last_error, result, err) ==
    [pc |-> pc, attempt |-> attempt, calls |-> calls, sleeps |-> sleeps,
     last_error |-> last_error, result |-> result, err |-> err]

NoHttp == Out("none", 0, <<>>, Null)
FreshRun == Run("start", 0, 0, <<>>, NoHttp, "none", NoErr)

_max_retries == max_retries_of(dec, settings)
_retry_delay == retry_delay_of(dec, settings)
_retry_on_rate_limit == retry_on_rate_limit_of(dec, settings)

\* What func does when the wrapper invokes it for the (k+1)-th time.
Invoke(k) == script[k + 1]

\* Lines 84-95: the policy is resolved and the loop is entered.
ApiCallStart ==
    /\ ac.pc = "start"
    /\ ac' = [ac EXCEPT !.pc = "loop"]
    /\ UNCHANGED <<extVars, dec, settings, script, ao, storeVars, storeHist, authVars>>

\* Line 97: range(_max_retries + 1)
LoopRange == _max_retries + 1

InLoop == ac.pc = "loop" /\ ac.attempt < LoopRange

\* Line 99: func returns.
ApiCallReturn ==
    /\ InLoop
    /\ Invoke(ac.calls).type = "ok"
    /\ ac' = [ac EXCEPT !.pc = "done", !.calls = @ + 1, !.result = "return"]
    /\ UNCHANGED <<extVars, dec, settings, script, ao, storeVars, storeHist, authVars>>

\* func raises an exception that is no HttpError: no except clause catches it.
ApiCallPropagate ==
    /\ InLoop
    /\ Invoke(ac.calls).type = "exc"
    /\ ac' = [ac EXCEPT !.pc = "done", !.calls = @ + 1, !.result = "propagate"]
    /\ UNCHANGED <<extVars, dec, settings, script, ao, storeVars, storeHist, authVars>>

WaitTimeConstant(attempt) == _retry_delay

\* Lines 106 and 116
wait_time(attempt) == _retry_delay * Pow2(attempt)

RetryOnRateLimitAlways(e, attempt) ==
    e.status = 429 /\ attempt < _max_retries

RetryOnRateLimit(e, attempt) ==
    e.status = 429 /\ _retry_on_rate_limit /\ attempt < _max_retries

RetryOnServerError(e, attempt) ==
    500 <= e.status /\ e.status < 600 /\ attempt < _max_retries

\* Lines 105-112
ApiCallRetryRateLimit ==
    /\ InLoop
    /\ LET e == Invoke(ac.calls) IN
        /\ e.type = "http"
        /\ RetryOnRateLimit(e, ac.attempt)
        /\ ac' = [ac EXCEPT !.calls = @ + 1, !.last_error = e,
                            !.sleeps = Append(@, wait_time(ac.attempt)),
                            !.attempt = @ + 1]
    /\ UNCHANGED <<extVars, dec, settings, script, ao, storeVars, storeHist, authVars>>

\* Lines 115-122
ApiCallRetryServerError ==
    /\ InLoop
    /\ LET e == Invoke(ac.calls) IN
        /\ e.type = "http"
        /\ ~RetryOnRateLimit(e, ac.attempt)
        /\ RetryOnServerError(e, ac.attempt)
        /\ ac' = [ac EXCEPT !.calls = @ + 1, !.last_error = e,
                            !.sleeps = Append(@, wait_time(ac.attempt)),
                            !.attempt = @ + 1]
    /\ UNCHANGED <<extVars, dec, settings, script, ao, storeVars, storeHist, authVars>>

ApiCallRaiseEarlierError ==
    /\ InLoop
    /\ LET e == Invoke(ac.calls) IN
        /\ e.type = "http"
        /\ ~RetryOnRateLimit(e, ac.attempt)
        /\ ~RetryOnServerError(e, ac.attempt)
        /\ ac' = [ac EXCEPT !.pc = "done", !.calls = @ + 1, !.last_error = e,
                            !.result = "raise",
                            !.err = map_http_error(IF ac.last_error # NoHttp
                                                   THEN ac.last_error ELSE e)]
    /\ UNCHANGED <<extVars, dec, settings, script, ao, storeVars, storeHist, authVars>>

\* Line 125
ApiCallRaise ==
    /\ InLoop
    /\ LET e == Invoke(ac.calls) IN
        /\ e.type = "http"
        /\ ~RetryOnRateLimit(e, ac.attempt)
        /\ ~RetryOnServerError(e, ac.attempt)
        /\ ac' = [ac EXCEPT !.pc = "done", !.calls = @ + 1, !.last_error = e,
                            !.result = "raise", !.err = map_http_error(e)]
    /\ UNCHANGED <<extVars, dec, settings, script, ao, storeVars, storeHist, authVars>>

\* Lines 127-132: the loop ran out of iterations.
ApiCallExhausted ==
    /\ ac.pc = "loop"
    /\ ~(ac.attempt < LoopRange)
    /\ ac' = IF ac.last_error # NoHttp
             THEN [ac EXCEPT !.pc = "done", !.result = "raise",
                             !.err = map_http_error(ac.last_error)]
             ELSE [ac EXCEPT !.pc = "done", !.result = "runtime_error"]
    /\ UNCHANGED <<extVars, dec, settings, script, ao, storeVars, storeHist, authVars>>

\* api_call_optional.wrapper, lines 156-163, as the outcome of its one try block.
OptionalRun(o) ==
    IF o.type = "ok" THEN Run("done", 0, 1, <<>>, NoHttp, "return", NoErr)
    ELSE IF o.type = "exc" THEN Run("done", 0, 1, <<>>, NoHttp, "propagate", NoErr)
    ELSE IF o.status = 404 THEN Run("done", 0, 1, <<>>, o, "return_none", NoErr)
    ELSE Run("done", 0, 1, <<>>, o, "raise", map_http_error(o))

ApiCallOptional ==
    /\ ao.pc = "start"
    /\ ao' = OptionalRun(Invoke(0))
    /\ UNCHANGED <<extVars, dec, settings, script, ac, storeVars, storeHist, authVars>>

Scripts(n) == [1..Max(n + 1, 1) -> Outcomes]

InitRetryVars ==
    /\ \/ dec \in GivenArgs /\ settings = DefaultSettings
       \/ dec = NoArgs /\ settings \in SettingsChoices
    /\ script \in Scripts(max_retries_of(dec, settings))
    /\ ac = FreshRun
    /\ ao = FreshRun

IdleRetryVars ==
    /\ dec = NoArgs
    /\ settings = DefaultSettings
    /\ script = <<OkOut>>
    /\ ac = FreshRun
    /\ ao = FreshRun

-----------------------------------------------------------------------------
(* Python values that json can carry, and json.dumps / json.loads.         *)
(* A value is None, a str, a list of str, or a dict from str to values.    *)

JVal(kind, s, l, o) == [kind |-> kind, s |-> s, l |-> l, o |-> o]
JNull    == JVal("null", "", <<>>, <<>>)
JStr(x)  == JVal("str", x, <<>>, <<>>)
JList(x) == JVal("list", "", x, <<>>)
JObj(d)  == JVal("obj", "", <<>>, d)

\* str or None
JOpt(x) == IF x = Null THEN JNull ELSE JStr(x)

EmptyDict == <<>>

\* d[k] = v
DictSet(d, k, v) ==
    [x \in (DOMAIN d) \cup {k} |-> IF x = k THEN v ELSE d[x]]

\* del d[k]
DictDel(d, k) == [x \in (DOMAIN d) \ {k} |-> d[x]]

\* bool(v)
Truthy(v) ==
    CASE v.kind = "null" -> FALSE
      [] v.kind = "str"  -> v.s # ""
      [] v.kind = "list" -> v.l # <<>>
      [] OTHER           -> v.o # EmptyDict

\* The JSON text is a sequence of tokens.
Tok(t, v) == [t |-> t, v |-> v]

\* The keys of the model's dicts, in the order the text lists them.
KeyOrder == <<"token", "refresh_token", "token_uri", "client_id",
              "client_secret", "scopes", "default", "alice",
              "service_account">>

Keys(d) == SelectSeq(KeyOrder, LAMBDA k : k \in DOMAIN d)

RECURSIVE json_dumps(_), DumpMembers(_, _)
json_dumps(v) ==
    CASE v.kind = "null" -> <<Tok("null", "")>>
      [] v.kind = "str"  -> <<Tok("str", v.s)>>
      [] v.kind = "list" ->
            <<Tok("[", "")>> \o [i \in DOMAIN v.l |-> Tok("str", v.l[i])]
                             \o <<Tok("]", "")>>
      [] OTHER ->
            <<Tok("{", "")>> \o DumpMembers(v.o, Keys(v.o)) \o <<Tok("}", "")>>
DumpMembers(d, ks) ==
    IF ks = <<>> THEN <<>>
    ELSE <<Tok("key", Head(ks))>> \o json_dumps(d[Head(ks)])
                                  \o DumpMembers(d, Tail(ks))

\* The value that starts at text[i], and the index after it.
RECURSIVE ParseValue(_, _), ParseItems(_, _, _), ParseMembers(_, _, _)
ParseValue(text, i) ==
    LET tok == text[i] IN
    CASE tok.t = "null" -> [v |-> JNull, i |-> i + 1]
      [] tok.t = "str"  -> [v |-> JStr(tok.v), i |-> i + 1]
      [] tok.t = "["    -> ParseItems(text, i + 1, <<>>)
      [] OTHER          -> ParseMembers(text, i + 1, EmptyDict)
ParseItems(text, i, acc) ==
    IF text[i].t = "]" THEN [v |-> JList(acc), i |-> i + 1]
    ELSE ParseItems(text, i + 1, Append(acc, text[i].v))
ParseMembers(text, i, acc) ==
    IF text[i].t = "}" THEN [v |-> JObj(acc), i |-> i + 1]
    ELSE LET val == ParseValue(text, i + 1)
         IN  ParseMembers(text, val.i, DictSet(acc, text[i].v, val.v))

json_loads(text) == ParseValue(text, 1).v

\* What json.loads gives a reader for the text json.dumps(v) a writer stored.
\* The stores' contents are kept in this form: the text, as every read
\* parses it.
ReadBack(v) == json_loads(json_dumps(v))

-----------------------------------------------------------------------------
(* Token Records.                                                          *)

TokenUri     == "https://oauth2.googleapis.com/token"
ClientId     == "client_id"
ClientSecret == "client_secret"
DefaultScopes == <<"gmail.modify", "calendar">>

TokenData(token, refresh_token, token_uri, client_id, client_secret, scopes) ==
    JObj([token |-> JOpt(token), refresh_token |-> JOpt(refresh_token),
          token_uri |-> JOpt(token_uri), client_id |-> JOpt(client_id),
          client_secret |-> JOpt(client_secret), scopes |-> JList(scopes)])

MaxIssued == 2      \* access tokens the authorization server issues
MaxTokens == 2      \* distinct access tokens in the records clients save

AccessToken(n) ==
    CASE n = 1 -> "at1" [] n = 2 -> "at2" [] n = 3 -> "at3"
      [] n = 4 -> "at4" [] OTHER -> "at5"

RefreshTokens == {Null, "rt1"}

\* The records the clients of a store save: with a refresh token, and one
\* without.
TokenRecords ==
    { TokenData(AccessToken(n), "rt1", TokenUri, ClientId, ClientSecret,
                DefaultScopes) : n \in 1..MaxTokens }
    \cup { TokenData(AccessToken(1), Null, TokenUri, ClientId, ClientSecret,
                     DefaultScopes) }

UserIds == {"default", "alice"}

\* The user_id from_service_account gives its manager.
ServiceAccountId == "service_account"

\* The user ids a manager can have.
ManagerIds == UserIds \cup {ServiceAccountId}

-----------------------------------------------------------------------------
(* SQLiteTokenStore: the table tokens as the sequence of its rows, without *)
(* the created_at / updated_at columns, which no operation reads.          *)

Row(user_id, token_data) == [user_id |-> user_id, token_data |-> token_data]

HasRow(table, user_id) == \E i \in DOMAIN table : table[i].user_id = user_id

sqlite_get_token(table, user_id) ==
    IF HasRow(table, user_id)
    THEN table[CHOOSE i \in DOMAIN table : table[i].user_id = user_id].token_data
    ELSE JNull

\* INSERT ... ON CONFLICT(user_id) DO UPDATE SET token_data = excluded.token_data
sqlite_save_token(table, token_data, user_id) ==
    LET token_json == ReadBack(token_data) IN
    IF HasRow(table, user_id)
    THEN [i \in DOMAIN table |->
            IF table[i].user_id = user_id
            THEN Row(user_id, token_json) ELSE table[i]]
    ELSE Append(table, Row(user_id, token_json))

\* DELETE FROM tokens WHERE user_id = ?; the table left and cursor.rowcount > 0
sqlite_delete_token(table, user_id) ==
    [table  |-> SelectSeq(table, LAMBDA r : r.user_id # user_id),
     result |-> HasRow(table, user_id)]

sqlite_exists(table, user_id) == HasRow(table, user_id)

-----------------------------------------------------------------------------
(* SecretManagerTokenStore: one secret, of which the latest version counts. *)

NoVersion == JNull

Secret(exists, payload) == [exists |-> exists, payload |-> payload]

\* access_secret_version(latest) raises NotFound
NotFound(sec) == ~sec.exists \/ sec.payload = NoVersion

\* _ensure_secret_exists
ensure_secret_exists(sec, auto) ==
    IF auto /\ ~sec.exists THEN Secret(TRUE, NoVersion) ELSE sec

sm_get_token(sec, user_id) ==
    IF NotFound(sec) THEN JNull
    ELSE LET data == sec.payload.o IN
         IF user_id \in DOMAIN data THEN data[user_id]
         ELSE IF user_id = "default" /\ "token" \in DOMAIN data THEN JObj(data)
         ELSE JNull

SmPayloadKeepsStored(existing, token_data, user_id) ==
    IF user_id \in DOMAIN existing THEN JObj(existing)
    ELSE IF user_id = "default" /\ existing = EmptyDict THEN token_data
    ELSE JObj(DictSet(existing, user_id, token_data))

\* Lines 99-103 of save_token: the payload of the version to add.
sm_payload(existing, token_data, user_id) ==
    IF user_id = "default" /\ existing = EmptyDict
    THEN token_data
    ELSE JObj(DictSet(existing, user_id, token_data))

\* The secret left, and whether add_secret_version raised NotFound.
sm_save_token(sec, auto, token_data, user_id) ==
    LET s1       == ensure_secret_exists(sec, auto)
        existing == IF NotFound(s1) THEN EmptyDict ELSE s1.payload.o
        payload  == sm_payload(existing, token_data, user_id)
    IN  IF s1.exists
        THEN [secret |-> Secret(TRUE, ReadBack(payload)), raised |-> FALSE]
        ELSE [secret |-> s1, raised |-> TRUE]

\* The secret left, and the value returned.
sm_delete_token(sec, user_id) ==
    IF NotFound(sec) THEN [secret |-> sec, result |-> FALSE]
    ELSE LET data == sec.payload.o IN
         IF user_id \in DOMAIN data
         THEN [secret |-> Secret(TRUE, ReadBack(JObj(DictDel(data, user_id)))),
               result |-> TRUE]
         ELSE IF user_id = "default"
         THEN [secret |-> Secret(FALSE, NoVersion), result |-> TRUE]
         ELSE [secret |-> sec, result |-> FALSE]

sm_exists(sec, user_id) == sm_get_token(sec, user_id) # JNull

-----------------------------------------------------------------------------
(* The store in use, behind the TokenStore interface (storage/base.py).    *)

Backends == {"sqlite", "secretmanager"}

store_get(table, sec, user_id) ==
    IF backend = "sqlite" THEN sqlite_get_token(table, user_id)
    ELSE sm_get_token(sec, user_id)

store_exists(table, sec, user_id) ==
    IF backend = "sqlite" THEN sqlite_exists(table, user_id)
    ELSE sm_exists(sec, user_id)

\* save_token: the store left, and whether the call raised.
store_save(table, sec, token_data, user_id) ==
    IF backend = "sqlite"
    THEN [rows |-> sqlite_save_token(table, token_data, user_id),
          secret |-> sec, raised |-> FALSE]
    ELSE LET r == sm_save_token(sec, auto_create, token_data, user_id)
         IN  [rows |-> table, secret |-> r.secret, raised |-> r.raised]

\* delete_token: the store left, and the value returned.
store_delete(table, sec, user_id) ==
    IF backend = "sqlite"
    THEN LET r == sqlite_delete_token(table, user_id)
         IN  [rows |-> r.table, secret |-> sec, result |-> r.result]
    ELSE LET r == sm_delete_token(sec, user_id)
         IN  [rows |-> table, secret |-> r.secret, result |-> r.result]

get_token(user_id) == store_get(rows, secret, user_id)
exists(user_id) == store_exists(rows, secret, user_id)

TokenFields == {"token", "refresh_token", "token_uri", "client_id",
                "client_secret", "scopes"}

\* The latest version is a single-user blob: a Token Record and nothing else.
IsBareBlob(sec) ==
    /\ ~NotFound(sec)
    /\ DOMAIN sec.payload.o = TokenFields

\* How many entries the store holds for user_id.
Entries(user_id) ==
    IF backend = "sqlite"
    THEN Cardinality({i \in DOMAIN rows : rows[i].user_id = user_id})
    ELSE IF NotFound(secret) THEN 0
    ELSE LET data == secret.payload.o IN
         (IF user_id \in DOMAIN data THEN 1 ELSE 0)
         + (IF user_id = "default" /\ "token" \in DOMAIN data THEN 1 ELSE 0)

StoreOp(op, user, token, raised, result, pre_default, pre_bare) ==
    [op |-> op, user |-> user, token |-> token, raised |-> raised,
     result |-> result, pre_default |-> pre_default, pre_bare |-> pre_bare]

NoStoreOp == StoreOp("none", "", JNull, FALSE, FALSE, JNull, FALSE)

\* A client of the store calls save_token(token_data, user_id).
SaveToken(token_data, user_id) ==
    LET r == store_save(rows, secret, token_data, user_id) IN
    /\ rows' = r.rows
    /\ secret' = r.secret
    /\ saved' = IF r.raised THEN saved ELSE [saved EXCEPT ![user_id] = token_data]
    /\ lastop' = StoreOp("save", user_id, token_data, r.raised, FALSE,
                         get_token("default"), IsBareBlob(secret))
    /\ UNCHANGED <<extVars, backend, auto_create, deleted, retryVars, authVars>>

\* A client of the store calls delete_token(user_id).
DeleteToken(user_id) ==
    LET r == store_delete(rows, secret, user_id) IN
    /\ rows' = r.rows
    /\ secret' = r.secret
    /\ saved' = [saved EXCEPT ![user_id] = JNull]
    /\ deleted' = TRUE
    /\ lastop' = StoreOp("delete", user_id, get_token(user_id), FALSE, r.result,
                         get_token("default"), IsBareBlob(secret))
    /\ UNCHANGED <<extVars, backend, auto_create, retryVars, authVars>>

\* get_token as a call that may fail: the value returned, and whether the
\* call raised.  reachable: the backend answers (the database file can be
\* opened, the Secret Manager service responds).
sqlite_get_token_call(table, user_id, reachable) ==
    IF reachable
    THEN [value |-> sqlite_get_token(table, user_id), raised |-> FALSE]
    ELSE [value |-> JNull, raised |-> TRUE]     \* sqlite3.Error propagates

sm_get_token_call(sec, user_id, reachable) ==
    IF reachable
    THEN [value |-> sm_get_token(sec, user_id), raised |-> FALSE]
    ELSE [value |-> JNull, raised |-> FALSE]    \* except Exception: return None

store_get_call(table, sec, user_id, reachable) ==
    IF backend = "sqlite" THEN sqlite_get_token_call(table, user_id, reachable)
    ELSE sm_get_token_call(sec, user_id, reachable)

\* A client of the store calls get_token(user_id).
GetToken(user_id, reachable) ==
    LET r == store_get_call(rows, secret, user_id, reachable) IN
    /\ lastop' = StoreOp(IF reachable THEN "get" ELSE "get_unreachable",
                         user_id, r.value, r.raised, FALSE,
                         get_token("default"), IsBareBlob(secret))
    /\ UNCHANGED <<extVars, storeVars, saved, deleted, retryVars, authVars>>

\* The store as it is when first used: the SQLite table is created empty; the
\* secret exists or not, and has no version yet.
InitStoreOver(ids) ==
    /\ backend \in Backends
    /\ auto_create \in (IF backend = "sqlite" THEN {FALSE} ELSE BOOLEAN)
    /\ rows = <<>>
    /\ secret \in (IF backend = "sqlite" THEN {Secret(FALSE, NoVersion)}
                   ELSE {Secret(e, NoVersion) : e \in BOOLEAN})
    /\ saved = [u \in ids |-> JNull]
    /\ deleted = FALSE
    /\ lastop = NoStoreOp

InitStoreVars == InitStoreOver(UserIds)

IdleStoreVars ==
    /\ backend = "sqlite"
    /\ auto_create = FALSE
    /\ rows = <<>>
    /\ secret = Secret(FALSE, NoVersion)
    /\ saved = [u \in UserIds |-> JNull]
    /\ deleted = FALSE
    /\ lastop = NoStoreOp

-----------------------------------------------------------------------------
(* GoogleAuth over the store in use.                                       *)
(*                                                                         *)
(* google.oauth2.credentials.Credentials is the library's class: an object *)
(* is valid when it has a token and is not expired, and it is expired when *)
(* its expiry attribute is set and that time has passed.  The model keeps, *)
(* in the variable expired, the access tokens whose lifetime has run out.  *)

\* Credentials, or None (present = FALSE).  has_expiry: expiry is not None.
Creds(present, token, refresh_token, token_uri, client_id, client_secret, scopes, has_expiry) ==
    [present |-> present, token |-> token, refresh_token |-> refresh_token,
     token_uri |-> token_uri, client_id |-> client_id,
     client_secret |-> client_secret, scopes |-> scopes,
     has_expiry |-> has_expiry]

NoCreds == Creds(FALSE, Null, Null, Null, Null, Null, <<>>, FALSE)

\* creds.expired
CredsExpired(c) == c.has_expiry /\ c.token \in expired

\* creds.valid
CredsValid(c) == c.token # Null /\ ~CredsExpired(c)

\* self.scopes
self_scopes == DefaultScopes

\* token_data.get(key) for a str-or-None field
DictGetStr(td, key) ==
    IF key \in DOMAIN td.o /\ td.o[key].kind = "str" THEN td.o[key].s ELSE Null

\* token_data.get("scopes")
DictGetList(td, key) ==
    IF key \in DOMAIN td.o /\ td.o[key].kind = "list" THEN td.o[key].l ELSE <<>>

\* _load_credentials: the new value of self._credentials.  The constructor is
\* given no expiry.
load_credentials(c, token_data) ==
    IF Truthy(token_data)
    THEN Creds(TRUE,
               DictGetStr(token_data, "token"),
               DictGetStr(token_data, "refresh_token"),
               DictGetStr(token_data, "token_uri"),
               DictGetStr(token_data, "client_id"),
               DictGetStr(token_data, "client_secret"),
               IF DictGetList(token_data, "scopes") # <<>>
               THEN DictGetList(token_data, "scopes") ELSE self_scopes,
               FALSE)
    ELSE c

CredentialsAlwaysReload(c, table, sec, user_id) ==
    load_credentials(c, store_get(table, sec, user_id))

\* The credentials property: self._credentials after the access.  A manager
\* without a token store (from_service_account) loads nothing.
credentials(c, table, sec, user_id) ==
    IF ~c.present /\ auth.token_store
    THEN load_credentials(c, store_get(table, sec, user_id))
    ELSE c

\* is_authenticated, on the credentials the property returned
is_authenticated(creds) == creds.present /\ CredsValid(creds)

\* needs_refresh, on the credentials the property returned
needs_refresh(creds) ==
    IF ~creds.present THEN FALSE
    ELSE CredsExpired(creds) /\ creds.refresh_token # Null

\* The token_data of _save_credentials.
token_data_of(c) ==
    TokenData(c.token, c.refresh_token, c.token_uri, c.client_id,
              c.client_secret, IF c.scopes # <<>> THEN c.scopes ELSE self_scopes)

SaveCredentialsSkipped(c, table, sec, user_id) ==
    [rows |-> table, secret |-> sec, raised |-> FALSE]

\* _save_credentials: the store left, and whether save_token raised.
save_credentials(c, table, sec, user_id) ==
    IF c.present /\ auth.token_store
    THEN store_save(table, sec, token_data_of(c), user_id)
    ELSE [rows |-> table, secret |-> sec, raised |-> FALSE]

\* What the authorization server hands out next.
NextToken == AccessToken(issued + 1)

Outcome(creds, table, sec, result, refresh_called, grant, flow_started) ==
    [creds |-> creds, rows |-> table, secret |-> sec, result |-> result,
     refresh_called |-> refresh_called, grant |-> grant,
     flow_started |-> flow_started]

RefreshWithoutCheck(c, user_id, grant_ok) ==
    LET creds == credentials(c, rows, secret, user_id) IN
    IF ~creds.present
    THEN Outcome(creds, rows, secret, "false", TRUE, "none", FALSE)
    ELSE IF ~grant_ok
    THEN Outcome(creds, rows, secret, "TokenRefreshError", TRUE, "failed", FALSE)
    ELSE LET fresh == [creds EXCEPT !.token = NextToken, !.has_expiry = TRUE]
             sv    == save_credentials(fresh, rows, secret, user_id)
         IN  Outcome(fresh, sv.rows, sv.secret,
                     IF sv.raised THEN "TokenRefreshError" ELSE "true",
                     TRUE, "ok", FALSE)

\* refresh(): c is self._credentials, grant_ok whether the refresh grant
\* (Credentials.refresh) succeeds.
refresh(c, user_id, grant_ok) ==
    LET creds == credentials(c, rows, secret, user_id) IN
    IF ~needs_refresh(creds)
    THEN Outcome(creds, rows, secret, "false", TRUE, "none", FALSE)
    ELSE IF ~grant_ok
    THEN Outcome(creds, rows, secret, "TokenRefreshError", TRUE, "failed", FALSE)
    ELSE LET fresh == [creds EXCEPT !.token = NextToken, !.has_expiry = TRUE]
             sv    == save_credentials(fresh, rows, secret, user_id)
         IN  Outcome(fresh, sv.rows, sv.secret,
                     IF sv.raised THEN "TokenRefreshError" ELSE "true",
                     TRUE, "ok", FALSE)

InteractiveWithoutFileCheck(creds, user_id, refresh_called, grant, flow_ok, rt) ==
    IF ~flow_ok
    THEN Outcome(creds, rows, secret, "FlowError", refresh_called, grant, TRUE)
    ELSE LET fresh == Creds(TRUE, NextToken, rt, TokenUri, ClientId,
                            ClientSecret, self_scopes, TRUE)
             sv    == save_credentials(fresh, rows, secret, user_id)
         IN  Outcome(fresh, sv.rows, sv.secret,
                     IF sv.raised THEN "NotFound" ELSE "credentials",
                     refresh_called, grant, TRUE)

\* The files credentials_file can name: the OAuth client-secret file, and the
\* service-account key file from_service_account is given.
ClientSecretsFile == "credentials.json"
ServiceAccountFile == "service-account.json"

\* InstalledAppFlow.from_client_secrets_file accepts the file: it describes
\* an installed or web client.  On any other JSON it raises ValueError.
IsClientSecrets(path) == path = ClientSecretsFile

\* Lines 192-207: the client-secret file is checked, the consent flow runs and
\* its credentials are saved.  flow_ok: the user consents; rt: the refresh
\* token the flow returns, if any.
interactive(creds, user_id, refresh_called, grant, flow_ok, rt) ==
    IF ~creds_file
    THEN Outcome(creds, rows, secret, "CredentialsNotFoundError",
                 refresh_called, grant, FALSE)
    ELSE IF ~IsClientSecrets(auth.credentials_file)
    THEN Outcome(creds, rows, secret, "ValueError", refresh_called, grant, FALSE)
    ELSE IF ~flow_ok
    THEN Outcome(creds, rows, secret, "FlowError", refresh_called, grant, TRUE)
    ELSE LET fresh == Creds(TRUE, NextToken, rt, TokenUri, ClientId,
                            ClientSecret, self_scopes, TRUE)
             sv    == save_credentials(fresh, rows, secret, user_id)
         IN  Outcome(fresh, sv.rows, sv.secret,
                     IF sv.raised THEN "NotFound" ELSE "credentials",
                     refresh_called, grant, TRUE)

AuthenticateAlwaysFlow(c, user_id, force, grant_ok, flow_ok, rt) ==
    interactive(c, user_id, FALSE, "none", flow_ok, rt)

AuthenticateIgnoringForce(c, user_id, force, grant_ok, flow_ok, rt) ==
    LET creds == credentials(c, rows, secret, user_id) IN
    IF is_authenticated(creds)
    THEN Outcome(creds, rows, secret, "credentials", FALSE, "none", FALSE)
    ELSE interactive(creds, user_id, FALSE, "none", flow_ok, rt)

\* authenticate(force)
authenticate(c, user_id, force, grant_ok, flow_ok, rt) ==
    IF ~force
    THEN LET creds == credentials(c, rows, secret, user_id) IN
         IF is_authenticated(creds)
         THEN Outcome(creds, rows, secret, "credentials", FALSE, "none", FALSE)
         ELSE IF needs_refresh(creds)
         THEN LET r == refresh(creds, user_id, grant_ok) IN
              IF r.result = "true"
              THEN [r EXCEPT !.result = "credentials"]
              ELSE r  \* refresh raised
         ELSE interactive(creds, user_id, FALSE, "none", flow_ok, rt)
    ELSE interactive(c, user_id, FALSE, "none", flow_ok, rt)

RevokeAlwaysDeletes(c, user_id) ==
    LET d == store_delete(rows, secret, user_id) IN
    Outcome(NoCreds, d.rows, d.secret, IF d.result THEN "true" ELSE "false",
            FALSE, "none", FALSE)

\* revoke(): self._credentials = None; return token_store.delete_token(user_id)
\* if there is a token store, False otherwise.
revoke(c, user_id) ==
    IF auth.token_store
    THEN LET d == store_delete(rows, secret, user_id) IN
         Outcome(NoCreds, d.rows, d.secret, IF d.result THEN "true" ELSE "false",
                 FALSE, "none", FALSE)
    ELSE Outcome(NoCreds, rows, secret, "false", FALSE, "none", FALSE)

ExportWithoutRefreshToken(c) ==
    IF c.present
    THEN TokenData(c.token, Null, c.token_uri, c.client_id, c.client_secret,
                   IF c.scopes # <<>> THEN c.scopes ELSE self_scopes)
    ELSE JNull

\* The dict export_token returns (lines 228-236), JNull for None.
export_payload(c) ==
    IF c.present
    THEN TokenData(c.token, c.refresh_token, c.token_uri, c.client_id,
                   c.client_secret,
                   IF c.scopes # <<>> THEN c.scopes ELSE self_scopes)
    ELSE JNull

\* export_token(): self._credentials is read as it is, without loading.
export_token(c) ==
    Outcome(c, rows, secret,
            IF export_payload(c) # JNull THEN "token_data" ELSE "none",
            FALSE, "none", FALSE)

\* What the manager and its store were like when the operation began: the
\* manager's state is the one its credentials property would report.
Pre(c, user_id) ==
    LET creds  == credentials(c, rows, secret, user_id)
        stored == get_token(user_id)
    IN  [unloaded |-> ~c.present,
         present |-> creds.present,
         token |-> creds.token,
         has_refresh_token |-> creds.refresh_token # Null,
         expired |-> CredsExpired(creds),
         is_authenticated |-> is_authenticated(creds),
         needs_refresh |-> needs_refresh(creds),
         exists |-> exists(user_id),
         stored_expired |-> DictGetStr(stored, "token") \in expired,
         stored_refreshable |-> DictGetStr(stored, "refresh_token") # Null]

AuthCall(op, force, o, pre) ==
    [op |-> op, force |-> force, result |-> o.result,
     refresh_called |-> o.refresh_called, grant |-> o.grant,
     flow_started |-> o.flow_started,
     store_changed |-> (o.rows # rows \/ o.secret # secret),
     creds_kept |-> o.creds = auth.credentials,
     pre |-> pre]

\* No operation of the manager has just ended.
Idle == [op |-> "none"]

\* The manager ends an operation with outcome o.
Finish(op, force, o) ==
    /\ auth' = [auth EXCEPT !.credentials = o.creds]
    /\ rows' = o.rows
    /\ secret' = o.secret
    /\ issued' = IF o.creds.present /\ o.creds.token = NextToken
                 THEN issued + 1 ELSE issued
    /\ call' = AuthCall(op, force, o, Pre(auth.credentials, auth.user_id))
    /\ UNCHANGED <<extVars, backend, auto_create, creds_file, expired, retryVars, storeHist>>

Bool(b) == IF b THEN "true" ELSE "false"

IsAuthenticated ==
    /\ auth.user_id \in ManagerIds
    /\ LET creds == credentials(auth.credentials, rows, secret, auth.user_id) IN
       Finish("is_authenticated", FALSE,
              Outcome(creds, rows, secret, Bool(is_authenticated(creds)),
                      FALSE, "none", FALSE))

NeedsRefresh ==
    /\ auth.user_id \in ManagerIds
    /\ LET creds == credentials(auth.credentials, rows, secret, auth.user_id) IN
       Finish("needs_refresh", FALSE,
              Outcome(creds, rows, secret, Bool(needs_refresh(creds)),
                      FALSE, "none", FALSE))

\* The authorization server issues at most MaxIssued access tokens.
CanIssue(ok) == ok => issued < MaxIssued

\* How the authorization server answers within one operation: it refuses, or
\* it grants, and a consent flow then returns the refresh token rt or none.
AuthServer ==
    {[ok |-> FALSE, rt |-> Null]} \cup {[ok |-> TRUE, rt |-> r] : r \in RefreshTokens}

Refresh ==
    \E grant_ok \in BOOLEAN :
        /\ CanIssue(grant_ok)
        /\ Finish("refresh", FALSE, refresh(auth.credentials, auth.user_id, grant_ok))

Authenticate(force) ==
    \E sv \in AuthServer :
        /\ CanIssue(sv.ok)
        /\ Finish("authenticate", force,
                  authenticate(auth.credentials, auth.user_id, force,
                               sv.ok, sv.ok, sv.rt))

Revoke ==
    /\ auth.user_id \in ManagerIds
    /\ Finish("revoke", FALSE, revoke(auth.credentials, auth.user_id))

\* service_account.Credentials is the library's class; whether it has the
\* attributes export_token reads (refresh_token, client_id, client_secret) is
\* the library's matter: the read returns, or raises AttributeError.
ExportToken ==
    \E has_attrs \in (IF auth.credentials_file = ServiceAccountFile
                      THEN BOOLEAN ELSE {TRUE}) :
        /\ auth.user_id \in ManagerIds
        /\ Finish("export_token", FALSE,
                  IF has_attrs \/ ~auth.credentials.present
                  THEN export_token(auth.credentials)
                  ELSE Outcome(auth.credentials, rows, secret, "AttributeError",
                               FALSE, "none", FALSE))

\* A new process constructs its GoogleAuth: __init__ leaves _credentials None.
NewInstance ==
    /\ auth.credentials.present
    /\ auth' = [auth EXCEPT !.credentials = NoCreds]
    /\ call' = Idle
    /\ UNCHANGED <<extVars, storeVars, storeHist, retryVars, creds_file, issued, expired>>

\* Access tokens other clients of the store hold.
OtherTokens == {"ot1"}

\* The access tokens the manager holds or could load.
TokensInUse ==
    {auth.credentials.token} \cup {DictGetStr(get_token(u), "token") : u \in UserIds}

\* Time passes: the lifetime of an access token runs out.
Expire(tok) ==
    /\ tok \notin expired
    /\ tok \in TokensInUse
    /\ expired' = expired \cup {tok}
    /\ call' = Idle
    /\ UNCHANGED <<extVars, storeVars, storeHist, retryVars, auth, creds_file, issued>>

OtherRecords ==
    { TokenData(t, "rt1", TokenUri, ClientId, ClientSecret, DefaultScopes) :
        t \in OtherTokens }

\* Another client of the same store saves a record.
OtherSave(token_data, user_id) ==
    LET r == store_save(rows, secret, token_data, user_id) IN
    /\ rows' = r.rows
    /\ secret' = r.secret
    /\ call' = Idle
    /\ UNCHANGED <<extVars, backend, auto_create, storeHist, retryVars, auth, creds_file,
                   issued, expired>>

\* Another client of the same store deletes a record.
OtherDelete(user_id) ==
    LET r == store_delete(rows, secret, user_id) IN
    /\ rows' = r.rows
    /\ secret' = r.secret
    /\ call' = Idle
    /\ UNCHANGED <<extVars, backend, auto_create, storeHist, retryVars, auth, creds_file,
                   issued, expired>>

\* GoogleAuth(token_store, credentials_file, scopes, user_id)
Manager(user_id, creds, token_store, credentials_file) ==
    [user_id |-> user_id, credentials |-> creds,
     token_store |-> token_store, credentials_file |-> credentials_file]

InitAuthVars ==
    /\ auth \in {Manager(u, NoCreds, TRUE, ClientSecretsFile) : u \in UserIds}
    /\ creds_file \in BOOLEAN
    /\ issued = 0
    /\ expired = {}
    /\ call = Idle

IdleAuthVars ==
    /\ auth = Manager("default", NoCreds, TRUE, ClientSecretsFile)
    /\ creds_file = TRUE
    /\ issued = 0
    /\ expired = {}
    /\ call = Idle

-----------------------------------------------------------------------------
(* The REST gateway (gsuite_api): the API-key gate and the credential      *)
(* check in front of the routes, over the manager get_auth builds.         *)

InvalidKey       == "Invalid or missing API key"
TokenExpired     == "Token expired. Re-authenticate required."
NotAuthenticated == "Not authenticated. Run OAuth flow first."

\* The X-API-Key header of a request: absent, the configured key, another.
Headers == {Null, "k1", "bad"}

\* settings.api_key
ApiKeys == {Null, "k1"}

\* get_api_key: the key returned, or 401 raised
get_api_key(header) ==
    IF api_key = Null \/ api_key = "" THEN "pass"
    ELSE IF header = Null \/ header = "" \/ header # api_key THEN "401"
    ELSE "pass"

Checked(o, status, detail) == [o |-> o, status |-> status, detail |-> detail]

\* The body of get_gmail, get_calendar and get_sheets: the manager and the
\* store it leaves, the status and the detail of the response.  A client is
\* built when the status is 200.  TokenRefreshError has no handler: the
\* application answers 500.
check_credentials(c, user_id, grant_ok) ==
    LET creds == credentials(c, rows, secret, user_id) IN
    IF is_authenticated(creds)
    THEN Checked(Outcome(creds, rows, secret, "client", FALSE, "none", FALSE),
                 200, "")
    ELSE IF needs_refresh(creds)
    THEN LET r == refresh(creds, user_id, grant_ok) IN
         IF r.result = "true" THEN Checked(r, 200, "")
         ELSE IF r.result = "false" THEN Checked(r, 401, TokenExpired)
         ELSE Checked(r, 500, "Internal Server Error")
    ELSE Checked(Outcome(creds, rows, secret, "none", FALSE, "none", FALSE),
                 401, NotAuthenticated)

\* What the manager held, or would load, when the request arrived.
GatewayPre(c, user_id) ==
    LET creds == credentials(c, rows, secret, user_id) IN
    [present |-> creds.present,
     token_expired |-> creds.present /\ creds.token \in expired,
     has_refresh_token |-> creds.present /\ creds.refresh_token # Null]

Response(route, header, status, detail, gated, checked, client, grant, pre) ==
    [route |-> route, header |-> header, status |-> status, detail |-> detail,
     gated |-> gated, checked |-> checked, client |-> client, grant |-> grant,
     pre |-> pre]

NoResp == [route |-> "none"]

\* One request to a route whose dependencies are the gate (gate), the
\* credential check (check), both or neither.
GatewayRequest(route, gate, check, header, grant_ok) ==
    LET denied == gate /\ get_api_key(header) = "401"
        ck     == check_credentials(auth.credentials, auth.user_id, grant_ok)
        pre    == GatewayPre(auth.credentials, auth.user_id)
    IN  /\ IF denied
           THEN /\ resp' = Response(route, header, 401, InvalidKey, gate, FALSE,
                                    FALSE, "none", pre)
                /\ UNCHANGED <<auth, rows, secret, issued>>
           ELSE IF ~check
           THEN /\ resp' = Response(route, header, 200, "placeholder", gate,
                                    FALSE, FALSE, "none", pre)
                /\ UNCHANGED <<auth, rows, secret, issued>>
           ELSE /\ resp' = Response(route, header, ck.status, ck.detail, gate,
                                    TRUE, ck.status = 200, ck.o.grant, pre)
                /\ auth' = [auth EXCEPT !.credentials = ck.o.creds]
                /\ rows' = ck.o.rows
                /\ secret' = ck.o.secret
                /\ issued' = IF ck.o.creds.present /\ ck.o.creds.token = NextToken
                             THEN issued + 1 ELSE issued
        /\ call' = Idle
        /\ UNCHANGED <<api_key, raceVars, messageVars, backend, auto_create,
                       creds_file, expired, retryVars, storeHist>>

\* How the authorization server can answer the refresh grant of a request:
\* only a request whose manager needs a refresh reaches it.
GrantAnswers ==
    IF needs_refresh(credentials(auth.credentials, rows, secret, auth.user_id))
    THEN BOOLEAN ELSE {TRUE}

\* routes/gmail.py: every route depends on GmailDep (get_auth, get_api_key).
GmailRequest ==
    \E header \in Headers, grant_ok \in GrantAnswers :
        /\ CanIssue(grant_ok)
        /\ GatewayRequest("gmail", TRUE, TRUE, header, grant_ok)

\* routes/calendar.py: every route depends on CalendarDep.
CalendarRequest ==
    \E header \in Headers, grant_ok \in GrantAnswers :
        /\ CanIssue(grant_ok)
        /\ GatewayRequest("calendar", TRUE, TRUE, header, grant_ok)

\* routes/sheets.py: every route depends on SheetsDep, get_sheets on get_auth.
SheetsRequest ==
    \E header \in Headers, grant_ok \in GrantAnswers :
        /\ CanIssue(grant_ok)
        /\ GatewayRequest("sheets", FALSE, TRUE, header, grant_ok)

\* routes/drive.py: the routes have no dependency.
DriveRequest ==
    \E header \in Headers :
        /\ header \in Headers
        /\ GatewayRequest("drive", FALSE, FALSE, header, FALSE)

\* The records "gsuite auth login" leaves in the store the gateway reads.
CliRecords ==
    OtherRecords \cup
    { TokenData(t, Null, TokenUri, ClientId, ClientSecret, DefaultScopes) :
        t \in OtherTokens }

InitGatewayVars ==
    /\ api_key \in ApiKeys
    /\ resp = NoResp

IdleGatewayVars ==
    /\ api_key = Null
    /\ resp = NoResp

-----------------------------------------------------------------------------
(* Two managers that share one store refresh at the same time.  A refresh  *)
(* is the grant followed by save_token; the Secret Manager save_token is   *)
(* several requests to the service, the SQLite one a single statement.     *)

\* The access token both managers hold; its lifetime has run out.
OldToken == AccessToken(1)

\* What a manager holds after the consent flow returned refresh token rt.
FlowCreds(rt) ==
    Creds(TRUE, OldToken, rt, TokenUri, ClientId, ClientSecret, DefaultScopes, TRUE)

\* A manager in refresh(): pc is where it is, found what get_secret answered,
\* existing the dict save_token read.
Refreshing(user_id, creds, pc, found, existing) ==
    [user_id |-> user_id, credentials |-> creds, pc |-> pc,
     found |-> found, existing |-> existing]

Write(p, user, token_data) == [p |-> p, user |-> user, token_data |-> token_data]
NoWrite == Write(0, "", JNull)

Step(p, m) ==
    /\ managers' = [managers EXCEPT ![p] = m]

\* Lines 161-164: needs_refresh() holds, and Credentials.refresh answers.
RaceGrant(p) ==
    \E grant_ok \in BOOLEAN :
        LET m == managers[p] IN
        /\ m.pc = "start"
        /\ needs_refresh(m.credentials)
        /\ IF grant_ok
           THEN /\ Step(p, [m EXCEPT !.pc = "save",
                                     !.credentials.token = NextToken])
                /\ issued' = issued + 1
           ELSE /\ Step(p, [m EXCEPT !.pc = "raised"])
                /\ UNCHANGED issued
        /\ UNCHANGED <<gatewayVars, messageVars, last_write, retryVars, storeVars,
                       storeHist, auth, creds_file, expired, call>>

\* SQLiteTokenStore.save_token: one INSERT ... ON CONFLICT DO UPDATE.
RaceSaveSqlite(p) ==
    LET m  == managers[p]
        td == token_data_of(m.credentials)
    IN  /\ m.pc = "save"
        /\ backend = "sqlite"
        /\ rows' = sqlite_save_token(rows, td, m.user_id)
        /\ last_write' = Write(p, m.user_id, td)
        /\ Step(p, [m EXCEPT !.pc = "done"])
        /\ UNCHANGED <<gatewayVars, messageVars, retryVars, backend, auto_create,
                       secret, storeHist, authVars>>

\* _ensure_secret_exists, get_secret
RaceGetSecret(p) ==
    LET m == managers[p] IN
    /\ m.pc = "save"
    /\ backend = "secretmanager"
    /\ Step(p, IF ~auto_create THEN [m EXCEPT !.pc = "read"]
               ELSE IF secret.exists THEN [m EXCEPT !.pc = "read", !.found = TRUE]
               ELSE [m EXCEPT !.pc = "create", !.found = FALSE])
    /\ UNCHANGED <<gatewayVars, messageVars, last_write, retryVars, storeVars,
                   storeHist, authVars>>

\* _ensure_secret_exists, create_secret: AlreadyExists is not caught.
RaceCreateSecret(p) ==
    LET m == managers[p] IN
    /\ m.pc = "create"
    /\ IF secret.exists
       THEN /\ Step(p, [m EXCEPT !.pc = "raised"])
            /\ UNCHANGED secret
       ELSE /\ Step(p, [m EXCEPT !.pc = "read"])
            /\ secret' = Secret(TRUE, NoVersion)
    /\ UNCHANGED <<gatewayVars, messageVars, last_write, retryVars, backend,
                   auto_create, rows, storeHist, authVars>>

\* save_token, lines 90-97: access_secret_version(latest)
RaceReadLatest(p) ==
    LET m == managers[p] IN
    /\ m.pc = "read"
    /\ Step(p, [m EXCEPT !.pc = "write",
                         !.existing = IF NotFound(secret) THEN EmptyDict
                                      ELSE secret.payload.o])
    /\ UNCHANGED <<gatewayVars, messageVars, last_write, retryVars, storeVars,
                   storeHist, authVars>>

\* save_token, lines 99-110: add_secret_version
RaceAddVersion(p) ==
    LET m  == managers[p]
        td == token_data_of(m.credentials)
    IN  /\ m.pc = "write"
        /\ IF secret.exists
           THEN /\ secret' = Secret(TRUE, ReadBack(sm_payload(m.existing, td,
                                                             m.user_id)))
                /\ last_write' = Write(p, m.user_id, td)
                /\ Step(p, [m EXCEPT !.pc = "done"])
           ELSE /\ Step(p, [m EXCEPT !.pc = "raised"])
                /\ UNCHANGED <<secret, last_write>>
        /\ UNCHANGED <<gatewayVars, messageVars, retryVars, backend, auto_create,
                       rows, storeHist, authVars>>

\* The refresh tokens of the two managers' consent flows.
RaceRefreshTokens == <<"rt1", "rt2">>

\* The store as the two managers' earlier authenticate() calls left it.
RaceSeed(u1, u2) ==
    LET r1 == token_data_of(FlowCreds(RaceRefreshTokens[1]))
        r2 == token_data_of(FlowCreds(RaceRefreshTokens[2]))
    IN  [rows |-> sqlite_save_token(sqlite_save_token(<<>>, r1, u1), r2, u2),
         secret |-> sm_save_token(
                       sm_save_token(Secret(TRUE, NoVersion), FALSE, r1,
                                     u1).secret,
                       FALSE, r2, u2).secret]

InitRaceVars ==
    /\ managers \in { [p \in 1..2 |->
                         Refreshing(IF p = 1 THEN u1 ELSE u2,
                                    FlowCreds(RaceRefreshTokens[p]),
                                    "start", FALSE, EmptyDict)] :
                      u1 \in UserIds, u2 \in UserIds }
    /\ last_write = NoWrite

IdleRaceVars ==
    /\ managers = <<>>
    /\ last_write = NoWrite

-----------------------------------------------------------------------------
(* gsuite_gmail.Message: the label operations of a message.                *)

MaxLabels == 3      \* longest labels list a message is built with

LabelNames == {"INBOX", "UNREAD", "STARRED", "IMPORTANT"}

\* label in labels
HasLabel(labels, label) == \E i \in DOMAIN labels : labels[i] = label

\* [l for l in labels if l != label]
WithoutLabel(labels, label) == SelectSeq(labels, LAMBDA l : l # label)

\* Gmail._modify_labels: is a request sent
modify_labels(add, remove) == add # <<>> \/ remove # <<>>

\* The end of a label operation: the labels left, whether a request was
\* sent, whether the operation raised.
LabelOp(labels, sent, raised) ==
    [labels |-> labels, sent |-> sent, raised |-> raised]

\* "if guard: _modify_labels(add=[label]); labels.append(label)"; ok: the
\* request returns.
Adding(m, guard, label, ok) ==
    IF guard
    THEN IF modify_labels(<<label>>, <<>>) /\ ~ok
         THEN LabelOp(m.labels, TRUE, TRUE)
         ELSE LabelOp(Append(m.labels, label), modify_labels(<<label>>, <<>>),
                      FALSE)
    ELSE LabelOp(m.labels, FALSE, FALSE)

\* "if guard: _modify_labels(remove=[label]); labels = [l for l in ...]"
Removing(m, guard, label, ok) ==
    IF guard
    THEN IF modify_labels(<<>>, <<label>>) /\ ~ok
         THEN LabelOp(m.labels, TRUE, TRUE)
         ELSE LabelOp(WithoutLabel(m.labels, label),
                      modify_labels(<<>>, <<label>>), FALSE)
    ELSE LabelOp(m.labels, FALSE, FALSE)

is_unread(m) == HasLabel(m.labels, "UNREAD")
is_starred(m) == HasLabel(m.labels, "STARRED")
is_important(m) == HasLabel(m.labels, "IMPORTANT")

mark_as_read(m, ok) == Removing(m, m._gmail /\ is_unread(m), "UNREAD", ok)
mark_as_unread(m, ok) == Adding(m, m._gmail /\ ~is_unread(m), "UNREAD", ok)

StarWithoutCheck(m, ok) == Adding(m, m._gmail, "STARRED", ok)

star(m, ok) == Adding(m, m._gmail /\ ~is_starred(m), "STARRED", ok)
unstar(m, ok) == Removing(m, m._gmail /\ is_starred(m), "STARRED", ok)
mark_important(m, ok) == Adding(m, m._gmail /\ ~is_important(m), "IMPORTANT", ok)
mark_not_important(m, ok) == Removing(m, m._gmail /\ is_important(m), "IMPORTANT", ok)

Modify(op, r, pre_labels) ==
    [op |-> op, sent |-> r.sent, raised |-> r.raised, pre_labels |-> pre_labels]

NoModify == [op |-> "none", sent |-> FALSE, raised |-> FALSE, pre_labels |-> <<>>]

\* A label operation ends with r.
MessageOp(op, r) ==
    /\ msg' = [msg EXCEPT !.labels = r.labels]
    /\ modify' = Modify(op, r, msg.labels)
    /\ UNCHANGED <<gatewayVars, raceVars, labels0, retryVars, storeVars,
                   storeHist, authVars>>

MarkAsRead ==
    \E ok \in BOOLEAN :
        /\ ok \in BOOLEAN
        /\ MessageOp("mark_as_read", mark_as_read(msg, ok))

MarkAsUnread ==
    \E ok \in BOOLEAN :
        /\ ok \in BOOLEAN
        /\ MessageOp("mark_as_unread", mark_as_unread(msg, ok))

Star ==
    \E ok \in BOOLEAN :
        /\ ok \in BOOLEAN
        /\ MessageOp("star", star(msg, ok))

Unstar ==
    \E ok \in BOOLEAN :
        /\ ok \in BOOLEAN
        /\ MessageOp("unstar", unstar(msg, ok))

MarkImportant ==
    \E ok \in BOOLEAN :
        /\ ok \in BOOLEAN
        /\ MessageOp("mark_important", mark_important(msg, ok))

MarkNotImportant ==
    \E ok \in BOOLEAN :
        /\ ok \in BOOLEAN
        /\ MessageOp("mark_not_important", mark_not_important(msg, ok))

\* The labels lists of at most n labels.
LabelLists(n) == UNION { [1..k -> LabelNames] : k \in 0..n }

\* Message(id, ..., labels, _gmail): linked to a client or not.
InitMessageVars ==
    /\ labels0 \in LabelLists(MaxLabels)
    /\ msg \in {[labels |-> labels0, _gmail |-> g] : g \in BOOLEAN}
    /\ modify = NoModify

IdleMessageVars ==
    /\ labels0 = <<>>
    /\ msg = [labels |-> <<>>, _gmail |-> FALSE]
    /\ modify = NoModify

-----------------------------------------------------------------------------
(* The specifications.                                                     *)

IdleExtVars == IdleGatewayVars /\ IdleRaceVars /\ IdleMessageVars

InitRetry == InitRetryVars /\ IdleStoreVars /\ IdleAuthVars /\ IdleExtVars

NextRetry ==
    \/ ApiCallStart
    \/ ApiCallReturn
    \/ ApiCallPropagate
    \/ ApiCallRetryRateLimit
    \/ ApiCallRetryServerError
    \/ ApiCallRaise
    \/ ApiCallExhausted
    \/ ApiCallOptional

SpecRetry == InitRetry /\ [][NextRetry]_vars

InitStore == IdleRetryVars /\ InitStoreVars /\ IdleAuthVars /\ IdleExtVars

NextStore ==
    \/ \E t \in TokenRecords, u \in UserIds : SaveToken(t, u)
    \/ \E u \in UserIds : DeleteToken(u)
    \/ \E u \in UserIds, reachable \in BOOLEAN : GetToken(u, reachable)

SpecStore == InitStore /\ [][NextStore]_vars

Init == IdleRetryVars /\ InitStoreVars /\ InitAuthVars /\ IdleExtVars

Next ==
    \/ IsAuthenticated
    \/ NeedsRefresh
    \/ Refresh
    \/ \E force \in BOOLEAN : Authenticate(force)
    \/ Revoke
    \/ ExportToken
    \/ NewInstance
    \/ \E n \in 1..issued : Expire(AccessToken(n))
    \/ \E tok \in OtherTokens : Expire(tok)
    \/ \E t \in OtherRecords, u \in UserIds : OtherSave(t, u)
    \/ \E u \in UserIds : OtherDelete(u)

Spec == Init /\ [][Next]_vars

\* The stores with a user whose id is the name of a Token Record field.
FieldUserIds == {"default", "token"}

InitFieldIds ==
    IdleRetryVars /\ InitStoreOver(FieldUserIds) /\ IdleAuthVars /\ IdleExtVars

NextFieldIds ==
    \/ \E t \in TokenRecords, u \in FieldUserIds : SaveToken(t, u)
    \/ \E u \in FieldUserIds : DeleteToken(u)
    \/ \E u \in FieldUserIds, reachable \in BOOLEAN : GetToken(u, reachable)

SpecFieldIds == InitFieldIds /\ [][NextFieldIds]_vars

\* service_account.Credentials.from_service_account_file: no token yet, no
\* expiry, no refresh token.
ServiceAccountCreds ==
    Creds(TRUE, Null, Null, TokenUri, Null, Null, self_scopes, FALSE)

\* The manager from_service_account returns, beside a store other managers
\* use.  The key file is still where it was, or has been removed since.
InitServiceAccount ==
    /\ IdleRetryVars
    /\ InitStoreVars
    /\ auth = Manager(ServiceAccountId, ServiceAccountCreds, FALSE,
                      ServiceAccountFile)
    /\ creds_file \in BOOLEAN
    /\ issued = 0
    /\ expired = {}
    /\ call = Idle
    /\ IdleExtVars

NextServiceAccount ==
    \/ IsAuthenticated
    \/ NeedsRefresh
    \/ Refresh
    \/ \E force \in BOOLEAN : Authenticate(force)
    \/ Revoke
    \/ ExportToken
    \/ \E t \in OtherRecords, u \in ManagerIds : OtherSave(t, u)
    \/ \E u \in ManagerIds : OtherDelete(u)

SpecServiceAccount == InitServiceAccount /\ [][NextServiceAccount]_vars

\* The gateway process: get_auth builds the manager of user "default" over
\* the configured store; the command line of other processes writes the
\* records, and time passes.
InitGateway ==
    /\ IdleRetryVars
    /\ InitStoreVars
    /\ auto_create = FALSE
    /\ auth = Manager("default", NoCreds, TRUE, ClientSecretsFile)
    /\ creds_file = TRUE
    /\ issued = 0
    /\ expired = {}
    /\ call = Idle
    /\ InitGatewayVars
    /\ IdleRaceVars
    /\ IdleMessageVars

NextGateway ==
    \/ GmailRequest
    \/ CalendarRequest
    \/ SheetsRequest
    \/ DriveRequest
    \/ \E t \in CliRecords, u \in UserIds : OtherSave(t, u)
    \/ \E u \in UserIds : OtherDelete(u)
    \/ \E tok \in OtherTokens : Expire(tok)

SpecGateway == InitGateway /\ [][NextGateway]_vars

\* Two managers, each about to refresh, over one store.
InitRace ==
    /\ IdleRetryVars
    /\ InitRaceVars
    /\ backend \in Backends
    /\ auto_create \in (IF backend = "sqlite" THEN {FALSE} ELSE BOOLEAN)
    /\ \E seeded \in BOOLEAN :
          LET seed == RaceSeed(managers[1].user_id, managers[2].user_id) IN
          /\ rows = IF seeded /\ backend = "sqlite" THEN seed.rows ELSE <<>>
          /\ secret \in (IF backend = "sqlite" THEN {Secret(FALSE, NoVersion)}
                         ELSE IF seeded THEN {seed.secret}
                         ELSE {Secret(e, NoVersion) : e \in BOOLEAN})
    /\ saved = [u \in UserIds |-> JNull]
    /\ deleted = FALSE
    /\ lastop = NoStoreOp
    /\ auth = Manager("default", NoCreds, TRUE, ClientSecretsFile)
    /\ creds_file = TRUE
    /\ issued = 1
    /\ expired = {OldToken}
    /\ call = Idle
    /\ IdleGatewayVars
    /\ IdleMessageVars

NextRace ==
    \/ \E p \in 1..2 : RaceGrant(p)
    \/ \E p \in 1..2 : RaceSaveSqlite(p)
    \/ \E p \in 1..2 : RaceGetSecret(p)
    \/ \E p \in 1..2 : RaceCreateSecret(p)
    \/ \E p \in 1..2 : RaceReadLatest(p)
    \/ \E p \in 1..2 : RaceAddVersion(p)

SpecRace == InitRace /\ [][NextRace]_vars

InitMessage ==
    IdleRetryVars /\ IdleStoreVars /\ IdleAuthVars /\ IdleGatewayVars
    /\ IdleRaceVars /\ InitMessageVars

NextMessage ==
    \/ MarkAsRead
    \/ MarkAsUnread
    \/ Star
    \/ Unstar
    \/ MarkImportant
    \/ MarkNotImportant

SpecMessage == InitMessage /\ [][NextMessage]_vars

-----------------------------------------------------------------------------
(* Claims about the retry wrappers (SpecRetry).                            *)

IsHttp(o, lo, hi) == o.type = "http" /\ lo <= o.status /\ o.status <= hi

\* func fails with 429 on each of its first n invocations
Always429(n) == \A i \in 1..n : IsHttp(script[i], 429, 429)

\* func fails with a 5xx status on each of its first n invocations
Always5xx(n) == \A i \in 1..n : IsHttp(script[i], 500, 599)

\* C1 (as claimed): with max_retries = N >= 0, a call that fails every time with 429
\* (rate-limit retry enabled) or every time with a 5xx status is attempted
\* exactly N+1 times, never more, and then the wrapper raises the mapped
\* error: RateLimitError for 429, APIError carrying the status for 5xx.
C1_ExhaustedRetries ==
    LET N == _max_retries IN
    (N >= 0 /\ ( (Always429(N + 1) /\ _retry_on_rate_limit) \/ Always5xx(N + 1) ))
    => /\ ac.calls <= N + 1
       /\ ac.pc = "done" =>
            /\ ac.calls = N + 1
            /\ ac.result = "raise"
            /\ ac.err = map_http_error(script[N + 1])
            /\ Always429(N + 1) => ac.err.kind = "RateLimitError"
            /\ Always5xx(N + 1) =>
                 /\ ac.err.kind = "APIError"
                 /\ ac.err.status_code = script[N + 1].status

\* C9 (as claimed): api_call_optional retries like api_call: run against the
\* same failures with max_retries >= 0, both make the same number of attempts
\* with the same delays, and end alike except that where api_call raises
\* NotFoundError, api_call_optional returns None.
C9_OptionalRetriesLikeApiCall ==
    (_max_retries >= 0 /\ ac.pc = "done" /\ ao.pc = "done")
    => /\ ao.calls = ac.calls
       /\ ao.sleeps = ac.sleeps
       /\ IF ac.result = "raise" /\ ac.err.kind = "NotFoundError"
          THEN ao.result = "return_none"
          ELSE ao.result = ac.result /\ ao.err = ac.err

\* A failure api_call must not retry: a non-HttpError exception, a 429 while
\* rate-limit retry is disabled, or a 4xx other than 429.
NonTransient(o) ==
    \/ o.type = "exc"
    \/ IsHttp(o, 429, 429) /\ ~_retry_on_rate_limit
    \/ IsHttp(o, 400, 428)
    \/ IsHttp(o, 430, 499)

QuotaUpper == <<"Q","U","O","T","A">>

\* the message contains "quota", each letter in either case
MentionsQuota(message) ==
    \E i \in 1..(Len(message) - 4) :
        \A j \in 1..5 : message[i + j - 1] \in {Quota[j], QuotaUpper[j]}

\* C12 (as claimed): map_http_error is total and maps by status, in this
\* order: 404 to NotFoundError; 403 whose message mentions "quota" in any
\* letter case to QuotaExceededError; any other 403 to PermissionDeniedError;
\* 429 to RateLimitError, with the retry-after hint when the response carries
\* one; every other status to APIError with that status and message.  Stated
\* of the error api_call raises for the HTTP failure that ended its run.
C12_MappingByStatus ==
    (ac.pc = "done" /\ ac.result = "raise")
    => LET e == ac.last_error
           r == ac.err
       IN  CASE e.status = 404 -> r.kind = "NotFoundError"
             [] e.status = 403 /\ MentionsQuota(e.message) ->
                    r.kind = "QuotaExceededError"
             [] e.status = 403 /\ ~MentionsQuota(e.message) ->
                    r.kind = "PermissionDeniedError"
             [] e.status = 429 ->
                    /\ r.kind = "RateLimitError"
                    /\ e.retry_after # Null <=> r.retry_after # None
             [] OTHER ->
                    /\ r.kind = "APIError"
                    /\ r.status_code = e.status
                    /\ r.message = e.message

\* C13: with base delay D, the i-th sleep of a run follows failed attempt
\* number i-1 (a 429 or a 5xx) and lasts exactly D * 2^(i-1); a run sleeps at
\* most max_retries times and never after its final attempt; an exhausted run
\* with max_retries = N sleeps N times: D, 2D, ..., 2^(N-1) * D.
C13_ExponentialBackoff ==
    LET N == _max_retries
        D == _retry_delay
    IN  /\ \A i \in 1..Len(ac.sleeps) :
             /\ ac.sleeps[i] = D * 2^(i - 1)
             /\ IsHttp(script[i], 429, 429) \/ IsHttp(script[i], 500, 599)
        /\ Len(ac.sleeps) <= Max(N, 0)
        /\ (ac.pc = "done" /\ N >= 0) => Len(ac.sleeps) = ac.calls - 1
        /\ (ac.pc = "done" /\ N >= 0 /\ ac.calls = N + 1 /\ ac.result = "raise")
           => /\ Len(ac.sleeps) = N
              /\ ac.sleeps = [i \in 1..N |-> D * 2^(i - 1)]

C13_Witness ==
    /\ _max_retries = MaxRetries
    /\ _retry_delay = MaxDelay
    /\ ac.pc = "done"
    /\ ac.result = "raise"
    /\ IsHttp(script[1], 429, 429)
    /\ IsHttp(script[MaxRetries], 500, 599)
    /\ Len(ac.sleeps) = MaxRetries
    /\ ac.sleeps[MaxRetries] = MaxDelay * 2^(MaxRetries - 1)

-----------------------------------------------------------------------------
(* Claims about the Token Stores (SpecStore).                              *)

\* only user_id has been saved, and nothing was ever deleted
OnlySaved(user_id) ==
    /\ ~deleted
    /\ saved[user_id] # JNull
    /\ \A v \in UserIds \ {user_id} : saved[v] = JNull

\* C2 (as claimed): in both stores, after save_token calls for a user id u
\* (and no other operation), get_token(u) is exactly the payload of the most
\* recent save and the store holds a single entry for u.
C2_LastSaveWinsSingleEntry ==
    \A u \in UserIds :
        OnlySaved(u) => get_token(u) = saved[u] /\ Entries(u) = 1

\* C3 (as claimed): in the Secret Manager store, save_token(t, "alice") over
\* a bare default-user blob leaves get_token("default") exactly as it was
\* and makes get_token("alice") return t.
C3_AliceSaveKeepsDefault ==
    ( /\ backend = "secretmanager"
      /\ lastop.op = "save" /\ lastop.user = "alice" /\ ~lastop.raised
      /\ lastop.pre_bare )
    => /\ get_token("default") = lastop.pre_default
       /\ get_token("alice") = lastop.token

\* C18 (as claimed): in both stores delete_token(u) returns true iff a record
\* for u existed just before the call, and afterwards exists(u) is false and
\* get_token(u) is None.
C18_DeleteReportsAndRemoves ==
    lastop.op = "delete"
    => /\ lastop.result <=> lastop.token # JNull
       /\ ~exists(lastop.user)
       /\ get_token(lastop.user) = JNull

\* C19 (as claimed): in both stores get_token(u) returns None without raising
\* when no record exists for u, and when the backend cannot be reached the
\* call raises: the failure is never answered with None.
C19_GetTokenTellsFailureFromAbsence ==
    /\ (lastop.op = "get" /\ ~exists(lastop.user))
       => ~lastop.raised /\ lastop.token = JNull
    /\ lastop.op = "get_unreachable" => lastop.raised

-----------------------------------------------------------------------------
(* Claims about GoogleAuth (Spec).  call describes the operation that has  *)
(* just ended; the formulas speak of the state it left.                    *)

\* self._credentials, read without loading
Held == auth.credentials

\* what the store returns for the manager's user id
StoredRecord == get_token(auth.user_id)

\* C4 (as claimed): whenever refresh() raises TokenRefreshError, alone or
\* inside authenticate(force=False), the manager is still Expired-Refreshable
\* (needs_refresh() true, is_authenticated() false) and the store is
\* unchanged; and authenticate(force=False) whose refresh grant fails raises
\* that error, without starting the flow.
C4_RefreshErrorLeavesExpiredRefreshable ==
    /\ call.op \in {"refresh", "authenticate"} /\ call.result = "TokenRefreshError"
       => /\ needs_refresh(Held)
          /\ ~is_authenticated(Held)
          /\ ~call.store_changed
    /\ call.op = "authenticate" /\ ~call.force /\ call.grant = "failed"
       => call.result = "TokenRefreshError" /\ ~call.flow_started

\* the record holds exactly the six fields of the credentials c
SameRecord(td, c) ==
    /\ td.kind = "obj"
    /\ DOMAIN td.o = TokenFields
    /\ td.o["token"] = JOpt(c.token)
    /\ td.o["refresh_token"] = JOpt(c.refresh_token)
    /\ td.o["token_uri"] = JOpt(c.token_uri)
    /\ td.o["client_id"] = JOpt(c.client_id)
    /\ td.o["client_secret"] = JOpt(c.client_secret)
    /\ td.o["scopes"] = JList(c.scopes)

FlowSucceeded ==
    call.op = "authenticate" /\ call.flow_started /\ call.result = "credentials"

RefreshSucceeded ==
    /\ call.op \in {"refresh", "authenticate"}
    /\ call.grant = "ok"
    /\ call.result \in {"true", "credentials"}

\* C5: after a successful authenticate() through the interactive flow and
\* after a successful refresh(), is_authenticated() is true and the store's
\* record for the manager's user id equals the in-memory credentials field
\* for field; after a refresh the stored access token is the new one, not
\* the one held before.
C5_SuccessIsPersisted ==
    (FlowSucceeded \/ RefreshSucceeded)
    => /\ is_authenticated(Held)
       /\ SameRecord(StoredRecord, Held)
       /\ RefreshSucceeded =>
            /\ call.pre.present
            /\ DictGetStr(StoredRecord, "token") # call.pre.token

C5_Witness ==
    /\ call.op = "refresh" /\ call.result = "true"
    /\ backend = "secretmanager"
    /\ call.pre.token = AccessToken(1)
    /\ DictGetStr(StoredRecord, "token") = AccessToken(2)
    /\ Held.token = AccessToken(2)

\* C6: authenticate(force=False) on a manager that is not Valid calls
\* refresh() iff needs_refresh() is true, starts the consent flow only when
\* the manager is not refreshable (no credentials, or expired with no refresh
\* token), and never starts it after a successful refresh;
\* authenticate(force=True) calls no refresh and goes to the flow.
C6_RefreshBeforeFlow ==
    call.op = "authenticate"
    => /\ (~call.force /\ ~call.pre.is_authenticated)
          => /\ call.refresh_called <=> call.pre.needs_refresh
             /\ call.flow_started =>
                  /\ ~call.pre.needs_refresh
                  /\ ~call.pre.present
                     \/ (call.pre.expired /\ ~call.pre.has_refresh_token)
             /\ call.grant = "ok" => ~call.flow_started
       /\ call.force
          => /\ ~call.refresh_called
             /\ call.grant = "none"
             /\ creds_file => call.flow_started

C6_Witness ==
    /\ call.op = "authenticate" /\ ~call.force
    /\ call.pre.needs_refresh /\ ~call.pre.is_authenticated
    /\ call.refresh_called /\ call.grant = "ok" /\ ~call.flow_started
    /\ call.result = "credentials"

\* C7 (as claimed): an Unloaded manager whose store holds a record with an
\* expired access token and a refresh token is Expired-Refreshable once it
\* has loaded: needs_refresh() is true and is_authenticated() is false.
C7_LoadedExpiredRecordIsRefreshable ==
    ( /\ call.op \in {"is_authenticated", "needs_refresh"}
      /\ call.pre.unloaded
      /\ call.pre.stored_expired
      /\ call.pre.stored_refreshable )
    => /\ needs_refresh(Held)
       /\ ~is_authenticated(Held)
       /\ call.op = "needs_refresh" => call.result = "true"
       /\ call.op = "is_authenticated" => call.result = "false"

\* C8 (as claimed): revoke() in any state clears the in-memory credentials
\* and deletes the store's entry for the manager's user id, returns true iff
\* an entry existed, and leaves exists(user_id) and is_authenticated() false.
C8_RevokeClearsAndReports ==
    call.op = "revoke"
    => /\ ~Held.present
       /\ call.result = "true" <=> call.pre.exists
       /\ ~exists(auth.user_id)
       /\ ~is_authenticated(credentials(Held, rows, secret, auth.user_id))

\* C14 (as claimed): whenever needs_refresh() is false, refresh() returns
\* false, makes no call to the refresh grant, and leaves the in-memory
\* credentials and the Token Store unchanged.
C14_RefreshNoOpChangesNothing ==
    (call.op = "refresh" /\ ~call.pre.needs_refresh)
    => /\ call.result = "false"
       /\ call.grant = "none"
       /\ ~call.flow_started
       /\ ~call.store_changed
       /\ call.creds_kept

\* what _load_credentials leaves in a manager that held no credentials
Loaded == load_credentials(NoCreds, StoredRecord)

\* C14 (amended): whenever needs_refresh() is false, refresh() returns false,
\* makes no call to the refresh grant and leaves the Token Store unchanged; a
\* manager that holds credentials keeps them as they are, and one that holds
\* none is left with what the store has for its user id (the record, loaded
\* and cached, or still nothing).
C14_RefreshNoOpOnlyLoads ==
    (call.op = "refresh" /\ ~call.pre.needs_refresh)
    => /\ call.result = "false"
       /\ call.grant = "none"
       /\ ~call.flow_started
       /\ ~call.store_changed
       /\ ~call.pre.unloaded => call.creds_kept
       /\ call.pre.unloaded => Held = Loaded

C14_Witness ==
    /\ call.op = "refresh" /\ ~call.pre.needs_refresh
    /\ call.pre.unloaded /\ call.pre.exists
    /\ call.result = "false"
    /\ Held.present /\ ~call.creds_kept

\* C15: authenticate(force=False) on a Valid manager returns the current
\* credentials at once: no consent flow, no refresh, no write to the Token
\* Store, and no check of the client-secret file (it returns even when the
\* file is missing); a further call leaves the state the first one left.
C15_ValidAuthenticateIsIdempotent ==
    (call.op = "authenticate" /\ ~call.force /\ call.pre.is_authenticated)
    => /\ call.result = "credentials"
       /\ ~call.flow_started
       /\ ~call.refresh_called
       /\ call.grant = "none"
       /\ ~call.store_changed
       /\ is_authenticated(Held)
       /\ Held.token = call.pre.token
       /\ \A sv \in AuthServer :
            LET again == authenticate(Held, auth.user_id, FALSE, sv.ok, sv.ok, sv.rt)
            IN  /\ again.creds = Held
                /\ again.rows = rows
                /\ again.secret = secret
                /\ again.result = "credentials"
                /\ ~again.flow_started

C15_Witness ==
    /\ call.op = "authenticate" /\ ~call.force /\ call.pre.is_authenticated
    /\ ~call.pre.unloaded
    /\ ~creds_file
    /\ call.result = "credentials"

\* Loaded/Invalid: no credentials, or an access token whose lifetime has
\* passed and no refresh token.
Invalid(c) == ~c.present \/ (c.token \in expired /\ c.refresh_token = Null)

\* C16 (as claimed): in Loaded/Invalid is_authenticated() and needs_refresh()
\* are both false, and no is_authenticated, needs_refresh, refresh or export
\* call makes the manager Valid: after any of them a manager that is
\* Loaded/Invalid still reports false for both.
C16_InvalidStaysInvalid ==
    ( /\ call.op \in {"is_authenticated", "needs_refresh", "refresh", "export_token"}
      /\ Invalid(credentials(Held, rows, secret, auth.user_id)) )
    => /\ ~is_authenticated(credentials(Held, rows, secret, auth.user_id))
       /\ ~needs_refresh(credentials(Held, rows, secret, auth.user_id))
       /\ call.op \in {"is_authenticated", "needs_refresh", "refresh"}
          => call.result = "false"

\* C17 (as claimed): is_authenticated() and needs_refresh() are pure reads: in
\* any state, Unloaded included, they leave the Token Store and the manager's
\* cached credentials exactly as they were and make no network call.
C17_ReadsChangeNothing ==
    call.op \in {"is_authenticated", "needs_refresh"}
    => /\ ~call.store_changed
       /\ call.creds_kept
       /\ call.grant = "none"
       /\ ~call.refresh_called
       /\ ~call.flow_started

\* C17 (amended): is_authenticated() and needs_refresh() never write to the
\* Token Store and never call the authorization server; a manager that holds
\* credentials keeps them as they are, and one that holds none reads the store
\* and caches the record it finds for its user id.
C17_ReadsOnlyLoad ==
    call.op \in {"is_authenticated", "needs_refresh"}
    => /\ ~call.store_changed
       /\ call.grant = "none"
       /\ ~call.refresh_called
       /\ ~call.flow_started
       /\ ~call.pre.unloaded => call.creds_kept
       /\ call.pre.unloaded => Held = Loaded

C17_Witness ==
    /\ call.op = "is_authenticated"
    /\ call.pre.unloaded /\ call.pre.exists
    /\ Held.present /\ ~call.creds_kept
    /\ call.result = "true"

-----------------------------------------------------------------------------
(* Claims about the retry wrappers, continued (SpecRetry).                 *)

\* C29: whatever max_retries the wrapper receives, zero and negative values
\* included, a finished run of api_call has invoked the wrapped function at
\* least once and has not ended in the "Unexpected state in api_call"
\* RuntimeError.
C29_InvokedAtLeastOnce ==
    ac.pc = "done" => ac.calls >= 1 /\ ac.result # "runtime_error"

-----------------------------------------------------------------------------
(* Claims about the Token Stores, continued (SpecStore, SpecFieldIds).     *)

\* C27: in both stores delete_token(u) leaves the record of every other user
\* as it was: get_token(v) after the call equals get_token(v) before it.
C27_DeleteLeavesOthers ==
    [][\A u \in UserIds :
          DeleteToken(u) =>
              \A v \in UserIds \ {u} :
                  store_get(rows', secret', v) = get_token(v)]_vars

\* C28: for every user id, ids named like a Token Record field included,
\* get_token(u) is non-None and exists(u) is true only if a record was saved
\* under u and not deleted since, and get_token(u) is that record.
C28_OnlyRecordsSavedUnderId ==
    \A u \in DOMAIN saved :
        /\ exists(u) => saved[u] # JNull
        /\ get_token(u) # JNull =>
              /\ saved[u] # JNull
              /\ get_token(u) = ReadBack(saved[u])

-----------------------------------------------------------------------------
(* Claims about GoogleAuth, continued (Spec, SpecServiceAccount).          *)

\* What get_token(user_id) returns in another deployment's store, SQLite or
\* Secret Manager, after save_token(payload, user_id) on the empty store.
Imported(payload, user_id) ==
    { sqlite_get_token(sqlite_save_token(<<>>, payload, user_id), user_id),
      sm_get_token(sm_save_token(Secret(TRUE, NoVersion), FALSE, payload,
                                 user_id).secret, user_id) }

C22_ServiceAccountSkipsStore ==
    call.op # "none" =>
        /\ ~call.store_changed
        /\ ~call.flow_started
        /\ Held \in {ServiceAccountCreds, NoCreds}
        /\ call.op = "revoke" => call.result = "false" /\ ~Held.present

\* revoke() ended on a manager that held the service-account credentials,
\* while the store holds a record under the manager's user id.
C22_Witness ==
    /\ call.op = "revoke"
    /\ call.result = "false"
    /\ call.pre.present
    /\ ~Held.present
    /\ exists(ServiceAccountId)

-----------------------------------------------------------------------------
(* Claims about the gateway (SpecGateway).                                 *)

\* C23: a Gmail, Calendar or Sheets request that reaches the credential
\* check while the manager is Loaded/Invalid (no record, or an expired access
\* token and no refresh token) is answered 401 "not authenticated"; one that
\* arrives while it is Expired-Refreshable and whose refresh grant fails is
\* answered 401 "token expired"; in both cases no client is built.
C23_InvalidOrFailedRefreshIs401 ==
    (resp.route \in {"gmail", "calendar", "sheets"} /\ resp.checked) =>
        /\ (~resp.pre.present
              \/ (resp.pre.token_expired /\ ~resp.pre.has_refresh_token)) =>
               /\ resp.status = 401
               /\ resp.detail = NotAuthenticated
               /\ ~resp.client
        /\ (resp.pre.token_expired /\ resp.pre.has_refresh_token
              /\ resp.grant = "failed") =>
               /\ resp.status = 401
               /\ resp.detail = TokenExpired
               /\ ~resp.client

\* C24: with an API key configured, a request to any Gmail, Calendar, Drive
\* or Sheets route whose X-API-Key header is absent or wrong is answered 401
\* before any credential check; with no key configured the gate rejects
\* nothing.
C24_KeyGateOnAllRoutes ==
    resp.route \in {"gmail", "calendar", "drive", "sheets"} =>
        IF api_key # Null
        THEN resp.header # api_key =>
                /\ resp.status = 401
                /\ resp.detail = InvalidKey
                /\ ~resp.checked
                /\ ~resp.client
        ELSE resp.detail # InvalidKey

-----------------------------------------------------------------------------
(* Claims about concurrent refreshes (SpecRace).                           *)

BothDone == \A p \in 1..2 : managers # <<>> /\ managers[p].pc = "done"

\* C25: when two managers with the same user id have both completed a
\* successful refresh over the same store, the record stored for that user is
\* the complete record of the save that wrote last: one manager's record,
\* not a mix of the two and not the record from before the refreshes.
C25_LastWriterWinsWholeRecord ==
    (BothDone /\ managers[1].user_id = managers[2].user_id) =>
        LET u == managers[1].user_id IN
        /\ get_token(u) = last_write.token_data
        /\ last_write.token_data =
              token_data_of(managers[last_write.p].credentials)
        /\ \A rt \in {RaceRefreshTokens[1], RaceRefreshTokens[2]} :
              get_token(u) # token_data_of(FlowCreds(rt))

\* Both managers saved to the Secret Manager store after reading the same
\* version, which held the user's earlier record, and manager 1 wrote last.
C25_Witness ==
    /\ BothDone
    /\ managers[1].user_id = managers[2].user_id
    /\ backend = "secretmanager"
    /\ managers[1].existing = managers[2].existing
    /\ managers[1].user_id \in DOMAIN managers[1].existing
    /\ last_write.p = 1

\* C26: in the Secret Manager store, when two save_token calls for two
\* different user ids have both returned, both users' records are
\* retrievable with the values saved, whatever the interleaving.
C26_ConcurrentSavesKeepBoth ==
    (BothDone /\ backend = "secretmanager"
              /\ managers[1].user_id # managers[2].user_id) =>
        \A p \in 1..2 :
            get_token(managers[p].user_id) = token_data_of(managers[p].credentials)

-----------------------------------------------------------------------------
(* Claims about Message (SpecMessage).                                     *)

\* labels.count(label)
Count(labels, label) == Cardinality({i \in DOMAIN labels : labels[i] = label})

\* The same operation, called once more on message m, the request returning.
Repeated(op, m) ==
    CASE op = "mark_as_read"       -> mark_as_read(m, TRUE)
      [] op = "mark_as_unread"     -> mark_as_unread(m, TRUE)
      [] op = "star"               -> star(m, TRUE)
      [] op = "unstar"             -> unstar(m, TRUE)
      [] op = "mark_important"     -> mark_important(m, TRUE)
      [] OTHER                     -> mark_not_important(m, TRUE)

\* C30: on a message linked to a client, a label operation changes the labels
\* list iff it sent a modify request and the request returned; after an
\* operation that returned, the same operation again sends nothing and
\* changes nothing; UNREAD, STARRED and IMPORTANT never occur more often than
\* once or than in the list the message was built with.
C30_LabelsFollowRemoteModify ==
    (modify.op # "none" /\ msg._gmail) =>
        /\ (msg.labels # modify.pre_labels) <=> (modify.sent /\ ~modify.raised)
        /\ ~modify.raised =>
              /\ ~Repeated(modify.op, msg).sent
              /\ Repeated(modify.op, msg).labels = msg.labels
        /\ \A l \in {"UNREAD", "STARRED", "IMPORTANT"} :
              Count(msg.labels, l) <= Max(1, Count(labels0, l))

\* A linked message built without STARRED was starred, the request returned,
\* and the list now holds STARRED once.
C30_Witness ==
    /\ msg._gmail
    /\ modify.op = "star"
    /\ modify.sent
    /\ ~modify.raised
    /\ Count(labels0, "STARRED") = 0
    /\ Count(msg.labels, "STARRED") = 1

====
